---- MODULE Spec2Model ----
(***************************************************************************)
(* Model of src/src/parser.py: the Parser class (the patch-selection list, *)
(* the rendering of the patching command line and the run of the           *)
(* subprocess).                                                            *)
(*                                                                         *)
(* A Python str is modelled as the sequence of its characters, so that     *)
(* str.lower() and str.replace() are computed character by character.     *)
(* A Python list is a sequence; list index i is sequence index i + 1.      *)
(***************************************************************************)
EXTENDS Integers, Sequences, FiniteSets, TLC

\* ------------------------------------------------------------------ bounds
\* Largest number of include/exclude calls made on one Parser.
MaxPatches == 2
\* Largest number of output lines the subprocess writes.
MaxLines == 1

\* ------------------------------------------------------- string operators
UpperChars == <<"A","B","C","D","E","F","G","H","I","J","K","L","M",
                "N","O","P","Q","R","S","T","U","V","W","X","Y","Z">>
LowerChars == <<"a","b","c","d","e","f","g","h","i","j","k","l","m",
                "n","o","p","q","r","s","t","u","v","w","x","y","z">>

\* One character of str.lower().
LowerChar(c) ==
    IF \E i \in DOMAIN UpperChars : UpperChars[i] = c
    THEN LowerChars[CHOOSE i \in DOMAIN UpperChars : UpperChars[i] = c]
    ELSE c

\* str.lower()
lower(s) == [i \in DOMAIN s |-> LowerChar(s[i])]

\* str.replace(old, new) for one-character old and new.
replace(s, old, new) == [i \in DOMAIN s |-> IF s[i] = old THEN new ELSE s[i]]

\* name.lower().replace(" ", "-")
Normalize(name) == replace(lower(name), " ", "-")

\* --------------------------------------------------------- the flag tokens
FlagI == <<"-","i">>
FlagE == <<"-","e">>
CLI_JAR == <<"-","j","a","r">>
APK_ARG == <<"-","a">>
PATCHES_ARG == <<"-","b">>
INTEGRATIONS_ARG == <<"-","m">>
OUTPUT_ARG == <<"-","o">>
KEYSTORE_ARG == <<"-","-","k","e","y","s","t","o","r","e">>
OPTIONS_ARG == <<"-","-","o","p","t","i","o","n","s">>
EXPERIMENTAL == <<"-","-","e","x","p","e","r","i","m","e","n","t","a","l">>
RIP_LIB == <<"-","-","r","i","p","-","l","i","b">>
OPTIONS_JSON == <<"o","p","t","i","o","n","s",".","j","s","o","n">>

\* ------------------------------------------------------------------ inputs
\* The patch names the callers pass: two plain names, a name that is not in
\* normalized form (its normalized form is the first plain name), and a name
\* that reads like the include flag.
NameX == <<"x">>
NameY == <<"y">>
NameUpperX == <<"X">>
NameFlag == <<"-","i">>
PatchNames == {NameX, NameY, NameUpperX, NameFlag}

\* src.utils.possible_archs: the architectures the engine supports.
possible_archs == <<<<"A">>, <<"B">>, <<"C">>>>

Range(s) == {s[i] : i \in DOMAIN s}

\* The target architecture lists of the applications.
ArchLists == {<<<<"A">>>>, <<<<"A">>, <<"B">>, <<"C">>>>}

\* The exit statuses of the subprocess.
ExitCodes == {0, 1}

\* config.rip_libs_apps and the application names.
AppYoutube == <<"y","t">>
AppReddit == <<"r","d">>
rip_libs_apps == {AppYoutube}

\* The applications handed to patch_app.
AllApps == [app_name : {AppYoutube, AppReddit},
         cli : {<<"c">>},
         download_file_name : {<<"a">>},
         patches : {<<"p">>},
         integrations : {<<"m">>},
         output_file_name : {<<"o">>},
         keystore_name : {<<"k">>},
         experiment : BOOLEAN,
         archs_to_build : ArchLists]
Apps == {a \in AllApps : a.app_name = AppReddit => a.archs_to_build = <<<<"A">>>>}

\* The value of app when no patch_app call has been made.
NoApp == [app_name |-> <<>>, cli |-> <<>>, download_file_name |-> <<>>,
          patches |-> <<>>, integrations |-> <<>>, output_file_name |-> <<>>,
          keystore_name |-> <<>>, experiment |-> FALSE,
          archs_to_build |-> <<>>]

\* config.temp_folder
temp_folder == <<"t">>

\* ------------------------------------------------------------------- state
VARIABLES
    _PATCHES,      \* Parser._PATCHES
    _EXCLUDED,     \* Parser._EXCLUDED
    ci_test,       \* config.ci_test
    op,            \* the last method called on the Parser
    arg,           \* its name argument (<<>> when it takes none)
    ret,           \* its return value: "None", "True", "False"
    pre_PATCHES,   \* _PATCHES when the last method was called
    pre_EXCLUDED,  \* _EXCLUDED when the last method was called
    app,           \* patch_app: the app argument
    args,          \* patch_app: the local args
    pc,            \* patch_app: position in the method
    output,        \* patch_app: process.stdout: "unset", "attached", "missing"
    proc,          \* the subprocess: "none", "running", "closed" (its output
                   \* is closed), "exited"
    exitCode,      \* the subprocess's exit status (-1 before it exits)
    logged,        \* lines forwarded to logger.debug
    result         \* patch_app: "none", "completed", "PatchingFailed"

vars == <<_PATCHES, _EXCLUDED, ci_test, op, arg, ret, pre_PATCHES,
          pre_EXCLUDED, app, args, pc, output, proc, exitCode, logged,
          result>>

patchVars == <<_PATCHES, _EXCLUDED>>
jobVars == <<app, args, pc, output, proc, exitCode, logged, result>>

\* The locals of patch_app and the subprocess, before any call.
JobReset ==
    /\ app' = NoApp
    /\ args' = <<>>
    /\ pc' = "idle"
    /\ output' = "unset"
    /\ proc' = "none"
    /\ exitCode' = -1
    /\ logged' = <<>>
    /\ result' = "none"

Init ==
    /\ _PATCHES = <<>>
    /\ _EXCLUDED = <<>>
    /\ ci_test \in BOOLEAN
    /\ op = "init"
    /\ arg = <<>>
    /\ ret = "None"
    /\ pre_PATCHES = <<>>
    /\ pre_EXCLUDED = <<>>
    /\ app = NoApp
    /\ args = <<>>
    /\ pc = "idle"
    /\ output = "unset"
    /\ proc = "none"
    /\ exitCode = -1
    /\ logged = <<>>
    /\ result = "none"

\* The record of a call: the method, its argument, its return value and the
\* lists as they were when it was called.
Called(method, name, value) ==
    /\ op' = method
    /\ arg' = name
    /\ ret' = value
    /\ pre_PATCHES' = _PATCHES
    /\ pre_EXCLUDED' = _EXCLUDED

\* ---------------------------------------------------------------- PatchSet
\* include that appends nothing for a name the list already holds.
includeOnce(name) ==
    /\ pc = "idle"
    /\ Len(_PATCHES) < 2 * MaxPatches
    /\ _PATCHES' = IF \E i \in DOMAIN _PATCHES : _PATCHES[i] = name
                   THEN _PATCHES ELSE _PATCHES \o <<FlagI, name>>
    /\ UNCHANGED <<_EXCLUDED, ci_test>>
    /\ Called("include", name, "None")
    /\ JobReset

\* Parser.include
include(name) ==
    /\ pc = "idle"
    /\ Len(_PATCHES) < 2 * MaxPatches
    /\ _PATCHES' = _PATCHES \o <<FlagI, name>>
    /\ UNCHANGED <<_EXCLUDED, ci_test>>
    /\ Called("include", name, "None")
    /\ JobReset

\* exclude without the record in _EXCLUDED.
excludeNoRecord(name) ==
    /\ pc = "idle"
    /\ Len(_PATCHES) < 2 * MaxPatches
    /\ _PATCHES' = _PATCHES \o <<FlagE, name>>
    /\ UNCHANGED <<_EXCLUDED, ci_test>>
    /\ Called("exclude", name, "None")
    /\ JobReset

\* exclude that keeps _EXCLUDED free of duplicates.
excludeOnce(name) ==
    /\ pc = "idle"
    /\ Len(_PATCHES) < 2 * MaxPatches
    /\ _PATCHES' = _PATCHES \o <<FlagE, name>>
    /\ _EXCLUDED' = IF \E i \in DOMAIN _EXCLUDED : _EXCLUDED[i] = name
                    THEN _EXCLUDED ELSE Append(_EXCLUDED, name)
    /\ UNCHANGED ci_test
    /\ Called("exclude", name, "None")
    /\ JobReset

\* Parser.exclude
exclude(name) ==
    /\ pc = "idle"
    /\ Len(_PATCHES) < 2 * MaxPatches
    /\ _PATCHES' = _PATCHES \o <<FlagE, name>>
    /\ _EXCLUDED' = Append(_EXCLUDED, name)
    /\ UNCHANGED ci_test
    /\ Called("exclude", name, "None")
    /\ JobReset

\* Parser.get_excluded_patches
get_excluded_patches == _EXCLUDED

\* Parser.get_all_patches
get_all_patches == _PATCHES

\* [i for i in range(len(P)) if P[i] == name], as sequence indices, ascending.
RECURSIVE IndicesFrom(_, _, _)
IndicesFrom(P, name, i) ==
    IF i > Len(P) THEN <<>>
    ELSE IF P[i] = name THEN <<i>> \o IndicesFrom(P, name, i + 1)
    ELSE IndicesFrom(P, name, i + 1)

Indices(P, name) == IndicesFrom(P, name, 1)

\* The sequence index of P[patch_index - 1]: Python index -1 is the last
\* element of the list.
Before(P, j) == IF j = 1 THEN Len(P) ELSE j - 1

\* One pass of the loop body of invert_patch, at sequence index j.
FlipAt(P, j) ==
    IF P[Before(P, j)] = FlagE
    THEN [P EXCEPT ![Before(P, j)] = FlagI]
    ELSE [P EXCEPT ![Before(P, j)] = FlagE]

\* for patch_index in indices: ...
RECURSIVE InvertLoop(_, _)
InvertLoop(P, indices) ==
    IF indices = <<>> THEN P
    ELSE InvertLoop(FlipAt(P, Head(indices)), Tail(indices))

\* The list after invert_patch(name); list.index raises ValueError when the
\* normalized name is not an element, and the list is then left alone.
InvertFirstOnly(P, name) ==
    LET n == Normalize(name)
    IN IF Indices(P, n) = <<>> THEN P ELSE FlipAt(P, Head(Indices(P, n)))
InvertedPatches(P, name) ==
    LET n == Normalize(name)
    IN InvertLoop(P, Indices(P, n))

\* The return value of invert_patch(name).
InvertReturn(P, name) ==
    IF Indices(P, Normalize(name)) = <<>> THEN "False" ELSE "True"

\* Parser.invert_patch
invert_patch(name) ==
    /\ pc = "idle"
    /\ _PATCHES' = InvertedPatches(_PATCHES, name)
    /\ UNCHANGED <<_EXCLUDED, ci_test>>
    /\ Called("invert_patch", name, InvertReturn(_PATCHES, name))
    /\ JobReset

\* Only the first "-i" of the list replaced.
ExcludedFirst(P) ==
    IF \E i \in DOMAIN P : P[i] = FlagI
    THEN [P EXCEPT ![CHOOSE i \in DOMAIN P :
                        P[i] = FlagI /\ \A j \in 1..(i - 1) : P[j] # FlagI] = FlagE]
    ELSE P

\* The list after exclude_all_patches.
ExcludedAll(P) == [i \in DOMAIN P |-> IF P[i] = FlagI THEN FlagE ELSE P[i]]

\* Parser.exclude_all_patches
exclude_all_patches ==
    /\ pc = "idle"
    /\ _PATCHES' = ExcludedAll(_PATCHES)
    /\ UNCHANGED <<_EXCLUDED, ci_test>>
    /\ Called("exclude_all_patches", <<>>, "None")
    /\ JobReset

\* ------------------------------------------------------------ BuildCommand
\* The argument left as it is.
joinpathNone(base, p) == p

\* pathlib's joinpath: an absolute argument replaces the base.
joinpath(base, p) ==
    IF p # <<>> /\ p[1] = "/" THEN p ELSE base \o <<"/">> \o p

\* Lines 125-140: the template.
Template(a) ==
    <<CLI_JAR, a.cli,
      APK_ARG, a.download_file_name,
      PATCHES_ARG, a.patches,
      INTEGRATIONS_ARG, a.integrations,
      OUTPUT_ARG, a.output_file_name,
      KEYSTORE_ARG, a.keystore_name,
      OPTIONS_ARG, OPTIONS_JSON>>

\* Lines 141-143.
WithExperimental(v, a) == IF a.experiment THEN Append(v, EXPERIMENTAL) ELSE v

\* The slice of line 144 taken from list index 0: args[0::2].
JoinFlagSlots(v) ==
    [i \in DOMAIN v |-> IF i % 2 = 1 THEN joinpath(temp_folder, v[i]) ELSE v[i]]

\* Line 144: args[1::2] = map(temp_folder.joinpath, args[1::2]).  List
\* indices 1, 3, 5, ... are the even sequence indices.
JoinOddSlots(v) ==
    [i \in DOMAIN v |-> IF i % 2 = 0 THEN joinpath(temp_folder, v[i]) ELSE v[i]]

\* The list left as it is whatever the mode.
PatchesForRunAsIs(P, ci) == P

\* Lines 145-146: the list after the CI conversion.
PatchesForRun(P, ci) == IF ci THEN ExcludedAll(P) ELSE P

\* Every known architecture, whatever the application targets.
RippedArchsAll(a) == Range(possible_archs)

\* Line 150: set(possible_archs) - set(app.archs_to_build)
RippedArchs(a) == Range(possible_archs) \ Range(a.archs_to_build)

\* Line 149.
RipsLibs(a) == a.app_name \in rip_libs_apps

\* The orders in which a set can be iterated.
Orders(S) ==
    {s \in [1..Cardinality(S) -> S] : \A i, j \in DOMAIN s : i # j => s[i] # s[j]}

\* Lines 151-152, for one iteration order.
RECURSIVE RipArgs(_)
RipArgs(order) ==
    IF order = <<>> THEN <<>>
    ELSE <<RIP_LIB, Head(order)>> \o RipArgs(Tail(order))

\* The path join of line 144 done after the extension of line 148.
RenderedJoinLate(a, P, ci, order) ==
    JoinOddSlots(WithExperimental(Template(a), a) \o PatchesForRun(P, ci))
        \o (IF RipsLibs(a) THEN RipArgs(order) ELSE <<>>)

\* Lines 125-152: args as handed to Popen, given the iteration order of the
\* set of line 150.
Rendered(a, P, ci, order) ==
    JoinOddSlots(WithExperimental(Template(a), a))
        \o PatchesForRun(P, ci)
        \o (IF RipsLibs(a) THEN RipArgs(order) ELSE <<>>)

\* Parser.patch_app, lines 125-156: render the arguments.
patch_app(a) ==
    /\ pc = "idle"
    /\ \E order \in Orders(RippedArchs(a)) :
           args' = Rendered(a, _PATCHES, ci_test, order)
    /\ _PATCHES' = PatchesForRun(_PATCHES, ci_test)
    /\ UNCHANGED <<_EXCLUDED, ci_test>>
    /\ Called("patch_app", <<>>, "None")
    /\ app' = a
    /\ pc' = "spawn"
    /\ output' = "unset"
    /\ proc' = "none"
    /\ exitCode' = -1
    /\ logged' = <<>>
    /\ result' = "none"

histVars == <<op, arg, ret, pre_PATCHES, pre_EXCLUDED>>

\* ----------------------------------------------------------- ProcessRunner
\* Lines 157-158 without the check of lines 159-160: the method goes on to
\* the loop whether or not there is an output stream.
SpawnNoRaise ==
    /\ pc = "spawn"
    /\ proc' = "running"
    /\ args' = <<>>
    /\ app' = NoApp
    /\ output' \in {"attached", "missing"}
    /\ pc' = "stream"
    /\ result' = "none"
    /\ UNCHANGED <<patchVars, ci_test, histVars, exitCode, logged>>

\* Lines 157-160: Popen, process.stdout, and the raise when there is none.
\* Popen takes the argument vector; neither args nor the fields of app are
\* read by the method after this line (app only names the job in the report
\* of line 165), so the model does not carry them further.
Spawn ==
    /\ pc = "spawn"
    /\ proc' = "running"
    /\ args' = <<>>
    /\ app' = NoApp
    /\ \/ /\ output' = "attached"
          /\ pc' = "stream"
          /\ result' = "none"
       \/ /\ output' = "missing"
          /\ pc' = "idle"
          /\ result' = "PatchingFailed"
    /\ UNCHANGED <<patchVars, ci_test, histVars, exitCode, logged>>

\* A line forwarded also after the loop has ended.
ReadLineWhileWaiting ==
    /\ pc \in {"stream", "wait"}
    /\ Len(logged) < MaxLines
    /\ logged' = Append(logged, Len(logged) + 1)
    /\ UNCHANGED <<patchVars, ci_test, histVars, app, args, pc, output, proc,
                   exitCode, result>>

\* Lines 161-162: the subprocess has written one more line; the loop body
\* forwards it to logger.debug.  Line k is the k-th line written.
ReadLine ==
    /\ pc = "stream"
    /\ Len(logged) < MaxLines
    /\ logged' = Append(logged, Len(logged) + 1)
    /\ UNCHANGED <<patchVars, ci_test, histVars, app, args, pc, output, proc,
                   exitCode, result>>

\* The loop given up, and the completion reported, while the subprocess
\* still runs.
StreamEndTimeout ==
    /\ pc = "stream"
    /\ pc' = "idle"
    /\ result' = "completed"
    /\ UNCHANGED <<patchVars, ci_test, histVars, app, args, output, proc,
                   exitCode, logged>>

\* Line 161: the subprocess has closed its output; the loop ends.
StreamEnd ==
    /\ pc = "stream"
    /\ pc' = "wait"
    /\ proc' = "closed"
    /\ UNCHANGED <<patchVars, ci_test, histVars, app, args, output, exitCode,
                   logged, result>>

\* The exit status inspected: a status other than 0 raises.
WaitReturnChecked(code) ==
    /\ pc = "wait"
    /\ pc' = "idle"
    /\ proc' = "exited"
    /\ exitCode' = code
    /\ result' = IF code = 0 THEN "completed" ELSE "PatchingFailed"
    /\ UNCHANGED <<patchVars, ci_test, histVars, app, args, output, logged>>

\* Lines 163-166: the subprocess has exited with status code; process.wait()
\* returns and the completion is reported.
WaitReturn(code) ==
    /\ pc = "wait"
    /\ pc' = "idle"
    /\ proc' = "exited"
    /\ exitCode' = code
    /\ result' = "completed"
    /\ UNCHANGED <<patchVars, ci_test, histVars, app, args, output, logged>>

\* ------------------------------------------------------------ specification
Next ==
    \/ \E name \in PatchNames : include(name)
    \/ \E name \in PatchNames : exclude(name)
    \/ \E name \in PatchNames : invert_patch(name)
    \/ exclude_all_patches
    \/ \E a \in Apps : patch_app(a)
    \/ Spawn
    \/ ReadLine
    \/ StreamEnd
    \/ \E code \in ExitCodes : WaitReturn(code)

Spec == Init /\ [][Next]_vars

\* The subprocess closes its output and exits: the end of the loop and the
\* return of process.wait() do not stay pending for ever.
SubprocessEnds ==
    /\ WF_vars(StreamEnd)
    /\ WF_vars(\E code \in ExitCodes : WaitReturn(code))

FairSpec == Spec /\ SubprocessEnds

\* ------------------------------------------------------------------ tokens
\* The list read as tokens: token i is the flag at list index 2i - 2 and the
\* name at list index 2i - 1.
TokenCount(P) == Len(P) \div 2
FlagAt(P, i) == P[2 * i - 1]
NameAt(P, i) == P[2 * i]
Tokens(P) == 1..TokenCount(P)
Opposite(flag) == IF flag = FlagI THEN FlagE ELSE FlagI
IsFlag(s) == s \in {FlagI, FlagE}
IsPrefix(s, t) == Len(s) <= Len(t) /\ SubSeq(t, 1, Len(s)) = s
Occurrences(s, x) == Cardinality({i \in DOMAIN s : s[i] = x})
NamedTokens(P, name) == {i \in Tokens(P) : NameAt(P, i) = name}

\* The tokens of P named name have the opposite flag in Q; everything else
\* of P is the same in Q.
FlippedFor(P, Q, name) ==
    /\ Len(Q) = Len(P)
    /\ \A i \in Tokens(P) :
          /\ NameAt(Q, i) = NameAt(P, i)
          /\ FlagAt(Q, i) = IF NameAt(P, i) = name
                            THEN Opposite(FlagAt(P, i)) ELSE FlagAt(P, i)

C2_InvertAbsentIsNoOp ==
    (op = "invert_patch" /\ NamedTokens(pre_PATCHES, Normalize(arg)) = {})
        => (/\ ret = "False"
            /\ get_all_patches = pre_PATCHES
            /\ get_excluded_patches = pre_EXCLUDED)

\* C3: a second invert(name) right after invert(name) leaves the list as it
\* was before the first.
C3_InvertTwiceRestores ==
    [][\A name \in PatchNames :
          (op = "invert_patch" /\ arg = name /\ invert_patch(name))
              => _PATCHES' = pre_PATCHES]_vars

\* C4: after excludeAll() the list has the same length and the same names at
\* the same positions, every token is exclude, and a second excludeAll()
\* would change nothing.
C4_ExcludeAllConverts ==
    (op = "exclude_all_patches")
        => (/\ Len(_PATCHES) = Len(pre_PATCHES)
            /\ \A i \in Tokens(pre_PATCHES) :
                  /\ NameAt(_PATCHES, i) = NameAt(pre_PATCHES, i)
                  /\ FlagAt(_PATCHES, i) = FlagE
            /\ ExcludedAll(_PATCHES) = _PATCHES)

\* C5: the excluded history only grows: the history at the last call is a
\* prefix of the history now, exclude has made it longer, and every other
\* method, the rendering in CI mode included, has left it as it was.
C5_ExcludedOnlyGrows ==
    /\ IsPrefix(pre_EXCLUDED, get_excluded_patches)
    /\ op = "exclude" => Len(get_excluded_patches) > Len(pre_EXCLUDED)
    /\ op # "exclude" => get_excluded_patches = pre_EXCLUDED

\* C5 witness: a rendering in CI mode has converted an include token while a
\* name was in the excluded history.
C5_Witness ==
    /\ op = "patch_app"
    /\ ci_test
    /\ pre_EXCLUDED # <<>>
    /\ _PATCHES # pre_PATCHES

\* C6 as stated: no name occurs twice in the excluded history.
C6_ExcludedHasNoDuplicates ==
    \A i, j \in DOMAIN get_excluded_patches :
        i # j => get_excluded_patches[i] # get_excluded_patches[j]

\* C6 as amended: the excluded history has one entry for each exclude call,
\* in call order: exclude(name) has appended name, also when the name was
\* already in the history.
C6_ExcludedRecordsEveryCall ==
    op = "exclude" => get_excluded_patches = Append(pre_EXCLUDED, arg)

\* C6 witness: exclude of a name that was already in the history.
C6_Witness ==
    /\ op = "exclude"
    /\ Occurrences(pre_EXCLUDED, arg) = 1
    /\ Occurrences(get_excluded_patches, arg) = 2

\* The number of template elements, and the list index after the optional
\* --experimental.
TemplateLen == Len(Template(NoApp))
PatchStart(a) == TemplateLen + (IF a.experiment THEN 1 ELSE 0)

\* The part of args after the patch tokens.
RipTail(v, a, P) == SubSeq(v, PatchStart(a) + Len(P) + 1, Len(v))

\* v is a sequence of (--rip-lib, arch) pairs.
IsRipPairs(v) ==
    /\ Len(v) % 2 = 0
    /\ \A i \in DOMAIN v :
          IF i % 2 = 1 THEN v[i] = RIP_LIB ELSE v[i] \in Range(possible_archs)

\* C7: the rendered vector is the seven (flag, value) pairs in order, then
\* --experimental once exactly when the application is experimental, then
\* the whole token list in its stored order, then (--rip-lib, arch) pairs,
\* and nothing else.
C7_VectorShape ==
    pc = "spawn" =>
        /\ Len(args) >= PatchStart(app) + Len(_PATCHES)
        /\ <<args[1], args[3], args[5], args[7], args[9], args[11], args[13]>>
             = <<CLI_JAR, APK_ARG, PATCHES_ARG, INTEGRATIONS_ARG, OUTPUT_ARG,
                 KEYSTORE_ARG, OPTIONS_ARG>>
        /\ Occurrences(args, EXPERIMENTAL) = (IF app.experiment THEN 1 ELSE 0)
        /\ app.experiment => args[TemplateLen + 1] = EXPERIMENTAL
        /\ SubSeq(args, PatchStart(app) + 1, PatchStart(app) + Len(_PATCHES))
             = get_all_patches
        /\ IsRipPairs(RipTail(args, app, _PATCHES))

\* C7 witness: an experimental application with patch tokens and rip-lib
\* pairs has been rendered.
C7_Witness ==
    /\ pc = "spawn"
    /\ app.experiment
    /\ TokenCount(_PATCHES) = 2
    /\ Len(RipTail(args, app, _PATCHES)) = 4

\* C8: in CI mode the rendered vector holds no include flag, and neither does
\* the list of the Parser once patch_app has rendered.
C8_CIModeExcludesAll ==
    (op = "patch_app" /\ ci_test)
        => (/\ Occurrences(args, FlagI) = 0
            /\ Occurrences(get_all_patches, FlagI) = 0)

\* C8 witness: a rendering in CI mode of a list that held an include token.
C8_Witness ==
    /\ pc = "spawn"
    /\ ci_test
    /\ \E i \in Tokens(pre_PATCHES) : FlagAt(pre_PATCHES, i) = FlagI
    /\ Len(args) > TemplateLen + 1

\* C9: experimental application, CI mode, no library stripping, list built by
\* include("x") then exclude("y"): the vector ends with -e x -e y and holds
\* --experimental once, before the first patch token.
C9_EndToEnd ==
    (/\ pc = "spawn"
     /\ app.experiment
     /\ ci_test
     /\ ~RipsLibs(app)
     /\ pre_PATCHES = <<FlagI, NameX, FlagE, NameY>>
     /\ pre_EXCLUDED = <<NameY>>)
        => (/\ Len(args) >= 4
            /\ SubSeq(args, Len(args) - 3, Len(args))
                 = <<FlagE, NameX, FlagE, NameY>>
            /\ Occurrences(args, EXPERIMENTAL) = 1
            /\ \E i \in 1..(Len(args) - 4) : args[i] = EXPERIMENTAL)

\* C9 witness: that rendering has happened.
C9_Witness ==
    /\ pc = "spawn"
    /\ app.experiment
    /\ ci_test
    /\ ~RipsLibs(app)
    /\ pre_PATCHES = <<FlagI, NameX, FlagE, NameY>>
    /\ pre_EXCLUDED = <<NameY>>
    /\ Len(args) = TemplateLen + 5

\* C10: for an application flagged for library stripping the vector holds a
\* (--rip-lib, a) pair for each architecture a that is known and not
\* targeted, once each, and no other; for an application that is not
\* flagged it holds no --rip-lib.
C10_RipLibsCoverComplement ==
    pc = "spawn" =>
        LET tail == RipTail(args, app, _PATCHES)
            U == Range(possible_archs)
            T == Range(app.archs_to_build)
        IN IF RipsLibs(app)
           THEN /\ IsRipPairs(tail)
                /\ Len(tail) = 2 * Cardinality(U \ T)
                /\ \A a \in U \ T : Occurrences(tail, a) = 1
                /\ \A a \in T : Occurrences(tail, a) = 0
                /\ Occurrences(args, RIP_LIB) = Cardinality(U \ T)
           ELSE Occurrences(args, RIP_LIB) = 0

\* C10 witness: a flagged application that targets one architecture has been
\* rendered with two rip-lib pairs, the last known architecture first.
C10_Witness ==
    /\ pc = "spawn"
    /\ RipsLibs(app)
    /\ Range(app.archs_to_build) = {<<"A">>}
    /\ RipTail(args, app, _PATCHES) = <<RIP_LIB, <<"C">>, RIP_LIB, <<"B">>>>

\* C11: when the output stream could not be attached, the job has raised
\* PatchingFailed with no line read, no wait on the subprocess and no
\* completion report.
C11_NoStreamRaisesAtOnce ==
    output = "missing" =>
        /\ result = "PatchingFailed"
        /\ pc = "idle"
        /\ logged = <<>>
        /\ proc = "running"
        /\ exitCode = -1

\* C11 witness: a job has failed to attach the output stream.
C11_Witness ==
    /\ output = "missing"
    /\ result = "PatchingFailed"
    /\ op = "patch_app"

\* The raw values of the seven path slots of the template.
RawValues(a) ==
    <<a.cli, a.download_file_name, a.patches, a.integrations,
      a.output_file_name, a.keystore_name, OPTIONS_JSON>>

\* The seven flags of the template.
TemplateFlags ==
    <<CLI_JAR, APK_ARG, PATCHES_ARG, INTEGRATIONS_ARG, OUTPUT_ARG,
      KEYSTORE_ARG, OPTIONS_ARG>>

\* C12: in the rendered vector each of the seven path slots is the raw value
\* under the working directory, and the seven flags, --experimental, the
\* patch tokens and the rip-lib tokens are verbatim.
C12_OnlyPathSlotsResolved ==
    pc = "spawn" =>
        /\ Len(args) >= PatchStart(app) + Len(_PATCHES)
        /\ \A k \in 1..7 :
              /\ args[2 * k] = temp_folder \o <<"/">> \o RawValues(app)[k]
              /\ args[2 * k - 1] = TemplateFlags[k]
        /\ app.experiment => args[TemplateLen + 1] = EXPERIMENTAL
        /\ \A i \in DOMAIN _PATCHES : args[PatchStart(app) + i] = _PATCHES[i]
        /\ \A i \in (PatchStart(app) + Len(_PATCHES) + 1)..Len(args) :
              args[i] = RIP_LIB \/ args[i] \in Range(possible_archs)

\* C12 witness: a rendering with --experimental, a patch token and a rip-lib
\* pair, whose first slot is the engine jar under the working directory.
C12_Witness ==
    /\ pc = "spawn"
    /\ app.experiment
    /\ _PATCHES # <<>>
    /\ Len(args) > PatchStart(app) + Len(_PATCHES)
    /\ args[2] = <<"t", "/", "c">>

\* Every include token of P is an exclude token in Q and nothing else of P
\* is different in Q.
OnlyIncludesExcluded(P, Q) ==
    /\ Len(Q) = Len(P)
    /\ \A i \in Tokens(P) :
          /\ NameAt(Q, i) = NameAt(P, i)
          /\ FlagAt(Q, i) = IF FlagAt(P, i) = FlagI THEN FlagE ELSE FlagAt(P, i)

\* C13: patch_app leaves the excluded history as it was; with CI mode off it
\* leaves the token list as it was, and with CI mode on the only change is
\* that include tokens have become exclude tokens.
C13_RenderingFrame ==
    op = "patch_app" =>
        /\ get_excluded_patches = pre_EXCLUDED
        /\ ~ci_test => get_all_patches = pre_PATCHES
        /\ ci_test => OnlyIncludesExcluded(pre_PATCHES, get_all_patches)

\* C14: include and exclude have appended exactly one token at the end of
\* the list, also for a name the list already held, and no method has made
\* the list shorter.
C14_TokensOnlyAppended ==
    /\ op = "include" => get_all_patches = pre_PATCHES \o <<FlagI, arg>>
    /\ op = "exclude" => get_all_patches = pre_PATCHES \o <<FlagE, arg>>
    /\ Len(get_all_patches) >= Len(pre_PATCHES)

\* C14 witness: exclude of a name right after include of the same name has
\* left both tokens, in order.
C14_Witness ==
    /\ op = "exclude"
    /\ arg = NameX
    /\ pre_PATCHES = <<FlagI, NameX>>
    /\ _PATCHES = <<FlagI, NameX, FlagE, NameX>>

C16_ExitStatusIgnored ==
    (output = "attached" /\ proc = "exited")
        => (result = "completed" /\ pc = "idle")

\* C16 witness: a run that exited with a status other than 0 is reported as
\* completed.
C16_Witness ==
    /\ output = "attached"
    /\ exitCode = 1
    /\ result = "completed"

NamesOf(P) == [i \in Tokens(P) |-> NameAt(P, i)]

\* C18: the list has even length with a flag at each flag position, include
\* and exclude have appended their name to the names of the list, and no
\* other method has changed the names.
C18_FlatListWellFormed ==
    /\ Len(_PATCHES) % 2 = 0
    /\ \A i \in Tokens(_PATCHES) : IsFlag(FlagAt(_PATCHES, i))
    /\ IF op \in {"include", "exclude"}
       THEN NamesOf(_PATCHES) = Append(NamesOf(pre_PATCHES), arg)
       ELSE NamesOf(_PATCHES) = NamesOf(pre_PATCHES)

\* C19: every name of the excluded history is the name of at least as many
\* tokens as it has entries in the history.
C19_HistoryNamesAreTokens ==
    \A i \in DOMAIN _EXCLUDED :
        Cardinality(NamedTokens(_PATCHES, _EXCLUDED[i]))
            >= Occurrences(_EXCLUDED, _EXCLUDED[i])

====
